---------------------------- MODULE Spec2Model ----------------------------
(***************************************************************************)
(* A model of colour_filter.py: FrameColorizer (length, function,          *)
(* frame_args, __str__) and FilterProxy (__next__, unroll_stack).          *)
(*                                                                         *)
(* A Python str is a sequence of one-character strings.  Indices are       *)
(* 0-based as in Python, so the arithmetic of the source is kept as is.    *)
(* A call's outcome is a record [exc, val]: exc = "none" when the call     *)
(* returns val, otherwise the name of the exception it raises.             *)
(*                                                                         *)
(* The script is sourced by gdb, whose __main__ namespace binds the name   *)
(* gdb, so gdb.execute in function() is a call of the host and returns the *)
(* line info symbol prints.  Addresses are kept below 2^31; '%016x' pads   *)
(* every 64-bit address to the same 16 digits.  The texts the host gives   *)
(* (names, values, filenames) hold no escape character and no newline.     *)
(***************************************************************************)
EXTENDS Integers, Sequences, FiniteSets, TLC

VARIABLES
    pc,               \* which entry point is to be called, or "done"
    colored_string,   \* the argument of FrameColorizer.length
    length_ret,       \* the outcome of FrameColorizer.length
    func,             \* what FrameDecorator.function() gives function()
    symbol,           \* what gdb.execute('info symbol ...') gives function()
    function_ret,     \* the outcome of FrameColorizer.function
    frame,            \* the frame decorated by the FrameColorizer
    is_print_address, \* gdb's parameter 'print address'
    str_ret,          \* the outcome of FrameColorizer.__str__
    host_frames,      \* the frames the host's iterator will give, in order
    frames,           \* FilterProxy.frames, the generator: [state, it, ix]
    stdout,           \* the output channel: one entry per print(), its text
    rendered,         \* the str(frame) calls made: [pos, depth, exc]
    rets              \* the outcome of each __next__ so far

vars == <<pc, colored_string, length_ret, func, symbol, function_ret, frame,
          is_print_address, str_ret, host_frames, frames, stdout, rendered,
          rets>>

lengthVars == <<colored_string, length_ret>>
functionVars == <<func, symbol, function_ret>>
strVars == <<frame, is_print_address, str_ret>>
proxyVars == <<host_frames, frames, stdout, rendered, rets>>

---------------------------------------------------------------------------
(* Characters and Python's str operations *)

ESC == "ESC"   \* '\033'
NL == "\n"
SP == " "

Digits == <<"0", "1", "2", "3", "4", "5", "6", "7", "8", "9">>
HexDigits == Digits \o <<"a", "b", "c", "d", "e", "f">>
Whitespace == {SP, NL, "\t"}

Ok(v) == [exc |-> "none", val |-> v]
Raise(e) == [exc |-> e, val |-> <<>>]

Min(S) == CHOOSE x \in S : \A y \in S : x <= y
Max(S) == CHOOSE x \in S : \A y \in S : x >= y

\* s.find(sub, start): the lowest 0-based index >= start where sub occurs, or -1
find(s, sub, start) ==
    LET hits == {i \in start..(Len(s) - Len(sub)) :
                    SubSeq(s, i + 1, i + Len(sub)) = sub}
    IN  IF hits = {} THEN -1 ELSE Min(hits)

\* s[:stop], with Python's reading of a negative stop
slice_to(s, stop) ==
    LET k == IF stop < 0 THEN Max({0, Len(s) + stop}) ELSE Min({stop, Len(s)})
    IN  SubSeq(s, 1, k)

\* s.strip()
strip(s) ==
    LET keep == {i \in 1..Len(s) : s[i] \notin Whitespace}
    IN  IF keep = {} THEN <<>> ELSE SubSeq(s, Min(keep), Max(keep))

\* s.rsplit(' ', 1)
rsplit1(s) ==
    LET at == {i \in 1..Len(s) : s[i] = SP}
    IN  IF at = {} THEN <<s>>
        ELSE <<SubSeq(s, 1, Max(at) - 1), SubSeq(s, Max(at) + 1, Len(s))>>

\* sep.join(items)
RECURSIVE join(_, _)
join(sep, items) ==
    IF items = <<>> THEN <<>>
    ELSE IF Len(items) = 1 THEN items[1]
    ELSE items[1] \o sep \o join(sep, Tail(items))

\* the decimal digits of n >= 0 ('%d' % n)
RECURSIVE dec(_)
dec(n) == IF n < 10 THEN <<Digits[n + 1]>>
          ELSE Append(dec(n \div 10), Digits[(n % 10) + 1])

\* the hexadecimal digits of n >= 0, lowercase ('%x' % n)
RECURSIVE hexdigits(_)
hexdigits(n) == IF n < 16 THEN <<HexDigits[n + 1]>>
                ELSE Append(hexdigits(n \div 16), HexDigits[(n % 16) + 1])

\* hex(n)
hex(n) == IF n < 0 THEN <<"-", "0", "x">> \o hexdigits(0 - n)
          ELSE <<"0", "x">> \o hexdigits(n)

\* left-justify s in a field of the given width ('%-3d'), pad with spaces
ljust(s, width) ==
    s \o [i \in 1..Max({0, width - Len(s)}) |-> SP]

\* right-justify s in a field of the given width, pad with zeros ('%016x')
zfill(s, width) ==
    [i \in 1..Max({0, width - Len(s)}) |-> "0"] \o s

DigitValue(c) == CHOOSE d \in 0..9 : Digits[d + 1] = c

RECURSIVE digits_value(_)
digits_value(s) ==
    IF s = <<>> THEN 0
    ELSE 10 * digits_value(SubSeq(s, 1, Len(s) - 1)) + DigitValue(s[Len(s)])

\* int(s): surrounding whitespace and one sign are accepted, then decimal
\* digits only; anything else is a ValueError
int(s) ==
    LET t == strip(s)
        signed == t # <<>> /\ t[1] \in {"+", "-"}
        body == IF signed THEN Tail(t) ELSE t
        isnum == body # <<>>
                 /\ \A i \in 1..Len(body) : \E d \in 1..10 : Digits[d] = body[i]
    IN  IF ~isnum THEN Raise("ValueError")
        ELSE IF signed /\ t[1] = "-" THEN Ok(0 - digits_value(body))
        ELSE Ok(digits_value(body))

---------------------------------------------------------------------------
(* FrameColorizer.length *)

\* span_len without the closing 'm'
span_len_open(begin, end) == end - begin

\* what one escape sequence adds to term_seq_len
span_len(begin, end) == end - begin + 1

\* the while loop of length(), entered with the locals start and term_seq_len
RECURSIVE length_loop(_, _, _)
length_loop(cs, start, term_seq_len) ==
    LET begin == find(cs, <<ESC>>, start)
    IN  IF begin = -1 THEN Ok(Len(cs) - term_seq_len)
        ELSE LET end == find(cs, <<"m">>, begin)
             IN  IF end = -1
                 THEN Raise("NameError")   \* end = len(s): no name s is bound
                 ELSE length_loop(cs, end, term_seq_len + span_len(begin, end))

length(cs) == length_loop(cs, 0, 0)

---------------------------------------------------------------------------
(* The colour sequences of FrameColorizer *)

RESET == <<ESC, "[", "0", "m">>                        \* '\033[0m'
WHITE == <<ESC, "[", "1", ";", "3", "7", "m">>         \* '\033[1;37m'
GREY == <<ESC, "[", "1", ";", "3", "0", "m">>          \* '\033[1;30m'
BLUE == <<ESC, "[", "1", ";", "3", "4", "m">>          \* '\033[1;34m'
CYAN == <<ESC, "[", "0", ";", "3", "6", "m">>          \* '\033[0;36m'
MAGENTA == <<ESC, "[", "0", ";", "3", "5", "m">>       \* '\033[0;35m'
IN_SECTION == <<"i", "n", SP, "s", "e", "c", "t", "i", "o", "n">>
NONE_TEXT == <<"N", "o", "n", "e">>                    \* '%s' % None

---------------------------------------------------------------------------
(* FrameColorizer.function *)

\* coloured_label without the colour sequences
coloured_label_plain(head, offset) == head \o <<SP>> \o hex(offset)

\* the label built when the offset parses
coloured_label(head, offset) == BLUE \o head \o <<SP>> \o hex(offset) \o RESET

\* the text kept from the line info symbol printed
symbol_name(sym) == strip(slice_to(sym, find(sym, IN_SECTION, 0)))

\* fn is what FrameDecorator.function() returned: [tag, name] with tag "int"
\* (an address), "str" (a name) or "None"; sym is the line info symbol prints
function(fn, sym) ==
    IF fn.tag = "int"
    THEN LET name == symbol_name(sym)
             parts == rsplit1(name)
         IN  IF Len(parts) = 1 THEN Ok(name)
             ELSE LET offset == int(parts[2])
                  IN  IF offset.exc = "ValueError" THEN Ok(name)
                      ELSE Ok(coloured_label(parts[1], offset.val))
    ELSE IF fn.tag = "str" THEN Ok(BLUE \o fn.name \o RESET)
    ELSE Raise("TypeError")       \* '\033[1;34m' + None

---------------------------------------------------------------------------
(* FrameColorizer.frame_args, depth, address, filename, line *)

\* one argument's text
arg_text(sym) == IF sym.val # <<>> THEN sym.name \o <<"=">> \o sym.val
                 ELSE sym.name

RECURSIVE args_of(_)
args_of(syms) ==
    IF syms = <<>> THEN <<>>
    ELSE IF ~syms[1].is_argument THEN args_of(Tail(syms))
    ELSE <<arg_text(syms[1])>> \o args_of(Tail(syms))

\* f.block_raises: frame.block() raises RuntimeError; f.blocks: the block and
\* its superblocks, innermost first, each [has_function, syms]
frame_args(f) ==
    LET known == IF f.block_raises THEN {}
                 ELSE {i \in 1..Len(f.blocks) : f.blocks[i].has_function}
    IN  IF known = {} THEN <<>>
        ELSE join(<<",", SP>>, args_of(f.blocks[Min(known)].syms))

depth(f) == WHITE \o <<"#">> \o ljust(dec(f.depth), 3) \o RESET

address(f) == GREY \o <<"0", "x">> \o zfill(hexdigits(f.address), 16) \o RESET

filename(f) == CYAN \o (IF f.has_filename THEN f.filename ELSE NONE_TEXT) \o RESET

\* f.line = 0 stands for both falsy values, None and 0
line(f) == IF f.line # 0 THEN MAGENTA \o <<":">> \o dec(f.line) \o RESET
           ELSE <<>>

---------------------------------------------------------------------------
(* FrameColorizer.get_screen_width and __str__ *)

SCREEN_WIDTH == 160

get_screen_width == SCREEN_WIDTH

\* the test that sends the frame to two lines
too_wide(parts) == Len(parts) > get_screen_width

\* shift_width without the compensation of ' in '
shift_width_uncompensated(part1, print_address) == length(part1).val - 1

\* the indentation of the second line
shift_width(part1, print_address) ==
    (length(part1).val - 1) - 3 * (IF print_address THEN 1 ELSE 0)

AT == <<SP, "a", "t", SP>>

part1_of(f, print_address) ==
    IF print_address
    THEN depth(f) \o <<SP, SP>> \o address(f) \o <<SP, "i", "n", SP>>
    ELSE depth(f) \o <<SP>>

part2_of(label, f) ==
    label \o <<SP>> \o WHITE \o <<"(">> \o frame_args(f) \o <<")">> \o RESET

part3_of(f) == filename(f) \o line(f)

\* the wrapping decision of __str__, taken on the three parts
layout(part1, part2, part3, print_address) ==
    IF too_wide(part1 \o part2 \o AT \o part3)
    THEN Ok(part1 \o part2 \o <<NL>>
            \o [i \in 1..shift_width(part1, print_address) |-> SP]
            \o AT \o part3)
    ELSE Ok(part1 \o part2 \o AT \o part3)

\* __str__ once self.function() has returned or raised
render(label, f, print_address) ==
    IF label.exc # "none" THEN label
    ELSE layout(part1_of(f, print_address), part2_of(label.val, f),
                part3_of(f), print_address)

\* str(FrameColorizer(f)) with 'print address' = print_address
str(f, print_address) ==
    render(function(f.function, f.symbol), f, print_address)

---------------------------------------------------------------------------
(* FilterProxy *)

\* FrameColorizer(raw, depth=ix)
FrameColorizer(raw, ix) == [depth |-> ix] @@ raw

\* FilterProxy.__init__: the generator over enumerate(frames), not yet
\* started; it counts the frames taken from the host's iterator and ix is
\* the counter of enumerate
FilterProxy_init == [state |-> "suspended", it |-> 0, ix |-> 0]

\* enumerate_count with enumerate started anew by each unroll_stack
enumerate_count_restarted(g, p) == p - (g.it + 1)

\* the count enumerate gives the frame at position p of the host's
\* sequence, when the generator g is resumed: enumerate lives in the
\* generator and goes on from g.ix
enumerate_count(g, p) == g.ix + (p - (g.it + 1))

\* what unroll_stack does, given res, the outcome of str() for each frame
\* the host still holds (positions first..last of its sequence): frames are
\* taken up to the first one whose str() raises, or to the end
unroll_result(g, last, res) ==
    LET bad == {p \in (g.it + 1)..last : res[p].exc # "none"}
        stop == IF bad = {} THEN last ELSE Min(bad)
    IN  [exc |-> IF bad = {} THEN "none" ELSE res[stop].exc,
         gen |-> [state |-> IF bad = {} THEN "finished" ELSE g.state,
                  it |-> stop,
                  ix |-> g.ix + (stop - g.it)],
         log |-> [i \in 1..(stop - g.it) |->
                     [pos |-> g.it + i,
                      depth |-> enumerate_count(g, g.it + i),
                      exc |-> res[g.it + i].exc]],
         printed |-> IF bad = {}
                     THEN <<join(<<NL>>, [i \in 1..(stop - g.it) |->
                                             res[g.it + i].val]) \o <<NL>>>>
                     ELSE <<>>]

\* the last position of the host's sequence the generator g can still reach
last_of(g, hs) == IF g.state = "finished" THEN g.it ELSE Len(hs)

\* FilterProxy.unroll_stack: print('\n'.join(str(frame) for frame in
\* self.frames)).  A finished generator gives nothing and touches nothing; a
\* live one takes the host's frames from where it stopped, up to the first
\* one whose str() raises (the exception leaves the join, nothing is
\* printed, the generator stays suspended) or to the end of the host's
\* sequence (the generator finishes and print() gets the joined text and
\* ends it with a newline).
unroll_stack(g, hs, print_address) ==
    unroll_result(g, last_of(g, hs),
        [p \in (g.it + 1)..last_of(g, hs) |->
            str(FrameColorizer(hs[p], enumerate_count(g, p)), print_address)])

---------------------------------------------------------------------------
(* Inputs *)

MaxLen == 7      \* longest string given to length()
MaxFrames == 3   \* longest sequence of frames the host gives
MaxCalls == 3    \* most __next__ calls made on one FilterProxy

Fill(c, n) == [i \in 1..n |-> c]

StringsUpTo(alphabet, n) == UNION {[1..k -> alphabet] : k \in 0..n}

LengthAlphabet == {ESC, "m", "a"}

RAISE_TEXT == <<"r", "a", "i", "s", "e">>
PLUS == <<SP, "+", SP>>
SECTION_TAIL ==
    <<SP>> \o IN_SECTION \o <<SP, ".", "t", "e", "x", "t", SP, "o", "f", SP>>
    \o <<"/", "u", "s", "r", "/", "l", "i", "b", "/", "l", "i", "b", "c", ".", "s", "o", ".", "6">>

SymbolNames == {RAISE_TEXT, <<"?", "?">>, <<"f">>}
Offsets == {0, 9, 272, 4096}
SymbolTails == {<<>>} \cup {PLUS \o dec(n) : n \in Offsets}
               \cup {<<SP>> \o dec(12), PLUS \o <<"n", "a", "n">>,
                     PLUS \o <<"-", "5">>}
SymbolTexts == {name \o tail \o sect \o nl :
                    name \in SymbolNames, tail \in SymbolTails,
                    sect \in {<<>>, SECTION_TAIL}, nl \in {<<>>, <<NL>>}}

FunctionValues == {[tag |-> "int", name |-> <<>>],
                   [tag |-> "str", name |-> RAISE_TEXT],
                   [tag |-> "str", name |-> <<"f">>],
                   [tag |-> "None", name |-> <<>>]}

ARGC == [name |-> <<"a", "r", "g", "c">>, is_argument |-> TRUE, val |-> <<"2">>]
TMP == [name |-> <<"t", "m", "p">>, is_argument |-> FALSE, val |-> <<"1">>]
OPT == [name |-> <<"o", "p", "t">>, is_argument |-> TRUE, val |-> <<>>]

BlockChains == {<<[has_function |-> FALSE, syms |-> <<TMP>>]>>,
                <<[has_function |-> TRUE, syms |-> <<>>]>>,
                <<[has_function |-> FALSE, syms |-> <<TMP>>],
                  [has_function |-> TRUE, syms |-> <<ARGC, TMP, OPT>>],
                  [has_function |-> TRUE, syms |-> <<TMP>>]>>}

FunctionCases == {<<[tag |-> "str", name |-> <<"f">>], <<>>>>,
                  <<[tag |-> "int", name |-> <<>>],
                    RAISE_TEXT \o PLUS \o dec(272) \o SECTION_TAIL \o <<NL>>>>,
                  <<[tag |-> "int", name |-> <<>>], <<"?", "?", NL>>>>,
                  <<[tag |-> "None", name |-> <<>>], <<>>>>}

FilenameLengths == {1, 90, 105, 125, 170}

RawFrames ==
    {[function |-> fc[1], symbol |-> fc[2], address |-> a,
      has_filename |-> hf, filename |-> IF hf THEN Fill("x", n) ELSE <<>>,
      line |-> ln, block_raises |-> br, blocks |-> bl] :
        fc \in FunctionCases, a \in {4198400}, hf \in BOOLEAN,
        n \in FilenameLengths, ln \in {0, 42}, br \in BOOLEAN,
        bl \in BlockChains}

Depths == {0, 12, 1234}

ShortFrame(fc) ==
    [function |-> fc[1], symbol |-> fc[2], address |-> 4198400,
     has_filename |-> TRUE, filename |-> <<"x">>, line |-> 42,
     block_raises |-> FALSE,
     blocks |-> <<[has_function |-> TRUE, syms |-> <<ARGC>>]>>]

HostFrames == {ShortFrame(fc) : fc \in FunctionCases}

HostSequences == UNION {[1..k -> HostFrames] : k \in 0..MaxFrames}

---------------------------------------------------------------------------
(* The state machines *)

IdleLength == colored_string = <<>> /\ length_ret = Ok(0)
IdleFunction == /\ func = [tag |-> "None", name |-> <<>>]
                /\ symbol = <<>>
                /\ function_ret = Ok(<<>>)
IdleStr == frame = <<>> /\ str_ret = Ok(<<>>)
IdleProxy == /\ host_frames = <<>>
             /\ frames = FilterProxy_init
             /\ stdout = <<>>
             /\ rendered = <<>>
             /\ rets = <<>>

\* length() is given a string
InitLength ==
    /\ pc = "length"
    /\ colored_string \in StringsUpTo(LengthAlphabet, MaxLen)
    /\ length_ret = Ok(0)
    /\ IdleFunction /\ IdleStr /\ IdleProxy /\ is_print_address = FALSE

Call_length ==
    /\ pc = "length"
    /\ length_ret' = length(colored_string)
    /\ pc' = "done"
    /\ UNCHANGED <<colored_string, functionVars, strVars, proxyVars>>

SpecLength == InitLength /\ [][Call_length]_vars

\* function() is called on a frame whose function and info symbol line are given
InitFunction ==
    /\ pc = "function"
    /\ func \in FunctionValues
    /\ symbol \in SymbolTexts
    /\ function_ret = Ok(<<>>)
    /\ IdleLength /\ IdleStr /\ IdleProxy /\ is_print_address = FALSE

Call_function ==
    /\ pc = "function"
    /\ function_ret' = function(func, symbol)
    /\ pc' = "done"
    /\ UNCHANGED <<lengthVars, func, symbol, strVars, proxyVars>>

SpecFunction == InitFunction /\ [][Call_function]_vars

\* str() is called on a FrameColorizer
InitStr ==
    /\ pc = "str"
    /\ \E raw \in RawFrames, d \in Depths : frame = FrameColorizer(raw, d)
    /\ is_print_address \in BOOLEAN
    /\ str_ret = Ok(<<>>)
    /\ IdleLength /\ IdleFunction /\ IdleProxy

Call_str ==
    /\ pc = "str"
    /\ str_ret' = str(frame, is_print_address)
    /\ pc' = "done"
    /\ UNCHANGED <<lengthVars, functionVars, frame, is_print_address, proxyVars>>

SpecStr == InitStr /\ [][Call_str]_vars

\* ColourFilter.filter made a FilterProxy over the host's frames
InitProxy ==
    /\ pc = "next"
    /\ host_frames \in HostSequences
    /\ is_print_address \in BOOLEAN
    /\ frames = FilterProxy_init
    /\ stdout = <<>>
    /\ rendered = <<>>
    /\ rets = <<>>
    /\ IdleLength /\ IdleFunction /\ frame = <<>> /\ str_ret = Ok(<<>>)

\* FilterProxy.__next__: unroll_stack(), then raise StopIteration unless
\* unroll_stack raised.  Each outcome is recorded with what the call did:
\* drained (self.frames was finished before it), pulls (frames taken from
\* the host), writes (print calls)
Call_next ==
    /\ pc = "next"
    /\ Len(rets) < MaxCalls
    /\ \E u \in {unroll_stack(frames, host_frames, is_print_address)} :
           /\ frames' = u.gen
           /\ stdout' = stdout \o u.printed
           /\ rendered' = rendered \o u.log
           /\ rets' = Append(rets,
                  [exc |-> IF u.exc = "none" THEN "StopIteration" ELSE u.exc,
                   drained |-> frames.state = "finished",
                   pulls |-> u.gen.it - frames.it,
                   writes |-> Len(u.printed)])
    /\ UNCHANGED <<pc, lengthVars, functionVars, strVars, host_frames>>

SpecProxy == InitProxy /\ [][Call_next]_vars

---------------------------------------------------------------------------
(* Properties *)

\* position i of s lies in an escape sequence: an ESC at or before it has no
\* 'm' strictly between the two
Hidden(s, i) ==
    \E j \in 1..i : s[j] = ESC /\ \A k \in (j + 1)..(i - 1) : s[k] # "m"

\* the visible characters of s from position i on: those before the next
\* escape character, and those after the 'm' that ends its sequence
RECURSIVE VisibleFrom(_, _)
VisibleFrom(s, i) ==
    LET escs == {k \in i..Len(s) : s[k] = ESC}
    IN  IF escs = {} THEN Len(s) - i + 1
        ELSE LET ms == {k \in Min(escs)..Len(s) : s[k] = "m"}
             IN  IF ms = {} THEN Min(escs) - i
                 ELSE (Min(escs) - i) + VisibleFrom(s, Min(ms) + 1)

VisibleCount(s) == VisibleFrom(s, 1)

\* every escape character of s has an 'm' after it
WellFormed(s) ==
    \A i \in 1..Len(s) : s[i] = ESC => \E k \in (i + 1)..Len(s) : s[k] = "m"

Unterminated(s) == ~WellFormed(s)

\* the single-line form of the frame, when function() returns
SingleLineForm ==
    part1_of(frame, is_print_address)
    \o part2_of(function(frame.function, frame.symbol).val, frame)
    \o AT \o part3_of(frame)

Rendered == pc = "done" /\ str_ret.exc = "none"

\* C1: a frame whose single-line form has a visible length of at most the
\* display budget is returned as that single line, with no newline in it.
C1_SingleLineWithinBudget ==
    (Rendered /\ VisibleCount(SingleLineForm) <= SCREEN_WIDTH)
        => /\ str_ret.val = SingleLineForm
           /\ \A i \in 1..Len(str_ret.val) : str_ret.val[i] # NL

\* C2: a frame whose single-line form has a visible length above the display
\* budget is returned on two lines: one newline, right after the closing
\* parenthesis of the arguments (and the reset that ends its colour), then
\* (visible length of the depth/address prefix) - 1 spaces, 3 fewer when
\* addresses are shown, then ' at ' and the filename and line.
C2_WrappedBeyondBudget ==
    (Rendered /\ VisibleCount(SingleLineForm) > SCREEN_WIDTH)
        => LET v == str_ret.val
               part1 == part1_of(frame, is_print_address)
               nls == {i \in 1..Len(v) : v[i] = NL}
               n == (VisibleCount(part1) - 1)
                    - (IF is_print_address THEN 3 ELSE 0)
           IN  /\ Cardinality(nls) = 1
               /\ \A k \in nls :
                    /\ k > Len(part1) + Len(RESET) + 1
                    /\ SubSeq(v, 1, Len(part1)) = part1
                    /\ SubSeq(v, k - Len(RESET) - 1, k - 1) = <<")">> \o RESET
                    /\ SubSeq(v, 1, k - 1) \o AT \o part3_of(frame)
                           = SingleLineForm
                    /\ n >= 0
                    /\ SubSeq(v, k + 1, Len(v))
                           = Fill(SP, n) \o AT \o part3_of(frame)

C2_Witness ==
    /\ Rendered
    /\ is_print_address
    /\ frame.depth = 1234
    /\ VisibleCount(SingleLineForm) > SCREEN_WIDTH
    /\ \E i \in 1..Len(str_ret.val) : str_ret.val[i] = NL

\* C3: a __next__ made when the emitter is already drained prints nothing,
\* takes nothing from the host's sequence and raises StopIteration.
C3_DrainedIsSilent ==
    \A i \in 1..Len(rets) :
        rets[i].drained => /\ rets[i].writes = 0
                           /\ rets[i].pulls = 0
                           /\ rets[i].exc = "StopIteration"

\* C4: the first __next__ renders every frame of the host's sequence once,
\* in order, the i-th with depth i, prints the newline-joined text in one
\* write and leaves the emitter drained.
C4_FirstRequestDrains ==
    Len(rets) = 1
        => /\ rets[1].exc = "StopIteration"
           /\ frames.state = "finished"
           /\ rendered = [i \in 1..Len(host_frames) |->
                             [pos |-> i, depth |-> i - 1, exc |-> "none"]]
           /\ stdout = <<join(<<NL>>,
                    [i \in 1..Len(host_frames) |->
                        str(FrameColorizer(host_frames[i], i - 1),
                            is_print_address).val]) \o <<NL>>>>

\* C5: on a string with an escape character that no 'm' follows, length
\* returns, and returns a value between 0 and the length of the string.
C5_UnterminatedIsTotal ==
    (pc = "done" /\ Unterminated(colored_string))
        => /\ length_ret.exc = "none"
           /\ length_ret.val \in 0..Len(colored_string)

\* C6: on a string made of plain text and well-formed escape sequences,
\* length returns the number of plain characters; with no escape sequence,
\* the length of the string.
C6_WellFormedVisibleLength ==
    (pc = "done" /\ WellFormed(colored_string))
        => /\ length_ret = Ok(VisibleCount(colored_string))
           /\ length_ret.val
                  = Cardinality({i \in 1..Len(colored_string) :
                                    ~Hidden(colored_string, i)})
           /\ (\A i \in 1..Len(colored_string) : colored_string[i] # ESC)
                  => length_ret.val = Len(colored_string)

C6_Witness ==
    /\ pc = "done"
    /\ colored_string = <<"a", ESC, "m", ESC, "a", "m", "m">>
    /\ length_ret = Ok(2)

\* the lookup line "<name> + <offset> in section .text of /usr/lib/libc.so.6"
LookupLine(name, n, nl) == name \o PLUS \o dec(n) \o SECTION_TAIL \o nl

\* C7 as claimed: for a numeric function and a lookup line of the form
\* "<name> + <decimal-offset> in section ...", the label is
\* "<name> <hex-offset>" in the function colour.
C7_LabelNameHexOffset ==
    \A name \in SymbolNames, n \in Offsets, nl \in {<<>>, <<NL>>} :
        (pc = "done" /\ func.tag = "int" /\ symbol = LookupLine(name, n, nl))
            => function_ret = Ok(BLUE \o name \o <<SP>> \o hex(n) \o RESET)

\* C7 as amended: for a numeric function and a lookup line of the form
\* "<name> + <decimal-offset> in section ...", the label is
\* "<name> + <hex-offset>" in the function colour: the plus sign stays.
\* "raise + 272 in section .text of /usr/lib/libc.so.6" gives "raise + 0x110".
C7_LabelNamePlusHexOffset ==
    /\ \A name \in SymbolNames, n \in Offsets, nl \in {<<>>, <<NL>>} :
        (pc = "done" /\ func.tag = "int" /\ symbol = LookupLine(name, n, nl))
            => function_ret = Ok(BLUE \o name \o PLUS \o hex(n) \o RESET)
    /\ (pc = "done" /\ func.tag = "int"
        /\ symbol = LookupLine(RAISE_TEXT, 272, <<>>))
            => function_ret.val = BLUE \o RAISE_TEXT
                   \o <<SP, "+", SP, "0", "x", "1", "1", "0">> \o RESET

C7_Witness ==
    /\ pc = "done"
    /\ func.tag = "int"
    /\ symbol = LookupLine(RAISE_TEXT, 272, <<NL>>)
    /\ function_ret.val = BLUE \o RAISE_TEXT
           \o <<SP, "+", SP, "0", "x", "1", "1", "0">> \o RESET

\* C8: for a numeric function and a lookup line without "in section", the
\* label is the whole line with the surrounding whitespace trimmed, and has
\* no colour.
C8_NoMarkerWholeLine ==
    (pc = "done" /\ func.tag = "int" /\ find(symbol, IN_SECTION, 0) = -1)
        => function_ret = Ok(strip(symbol))

\* C9: rendering a frame never raises, whatever the frame's attributes; a
\* block lookup that raises gives an empty argument list.
C9_RenderNeverRaises ==
    pc = "done"
        => /\ str_ret.exc = "none"
           /\ frame.block_raises => frame_args(frame) = <<>>

\* C10: over all the __next__ calls made on one emitter, the frames are taken
\* from the host's sequence in order, each at most once, and the depth of a
\* frame is its zero-based position in that sequence.
C10_DepthIsPosition ==
    /\ Len(rendered) = frames.it
    /\ frames.it <= Len(host_frames)
    /\ \A i \in 1..Len(rendered) :
          rendered[i].pos = i /\ rendered[i].depth = i - 1

C10_Witness ==
    \E i, j \in 1..Len(rets) :
        /\ i < j
        /\ rets[i].exc = "TypeError"
        /\ rets[i].pulls > 0
        /\ rets[j].pulls > 0
        /\ rets[j].exc = "StopIteration"

=============================================================================
